---- MODULE Spec2Model ----
(***************************************************************************)
(* A model of the mail pipeline of llm_outlook: the Outlook fetcher        *)
(* (core/outlook_email_fetcher.py), the batch summarizer                   *)
(* (core/email_parser.py) and the pushers (core/message_pusher.py).        *)
(*                                                                         *)
(* Each component is a state machine of its own (FetchSpec, ParseSpec,     *)
(* PushSpec) over the variables that hold its fields, the inputs of its    *)
(* last call and what that call returned; RunSpec follows one run of       *)
(* main() (main.py, core/main_controller.py).  External collaborators (the *)
(* Outlook object model, the model API, the webhook) are inputs drawn from *)
(* small sets.  Message texts are ASCII renderings of the texts in the     *)
(* source; the line they come from is given next to each.                  *)
(***************************************************************************)
EXTENDS Integers, Sequences, FiniteSets, TLC

(***************************************************************************)
(* Bounds of the model.                                                    *)
(***************************************************************************)
MaxItems == 2
MaxNow == 3
MaxDays == 1
MaxChannels == 2
MaxBatch == 2

\* Time is counted in half days: timedelta(days = d) is d * DayLen units.
DayLen == 2
\* The offset of the machine's local time zone from UTC, in time units.
LocalOffset == 1
\* The UTC offsets an aware ReceivedTime can carry.
AwareOffsets == {0}

EntryIds == 1 .. MaxItems

VARIABLES
    \* ---- the mail source and the clock
    mailbox,          \* inbox.Items: entry id -> item, for the ids present
    now,              \* the instant (UTC) datetime.now() is read at
    \* ---- OutlookEmailFetcher
    outlook_app,      \* TRUE iff self.outlook_app is set (connected)
    processed_ids,    \* self.processed_ids
    fetchOp,          \* the fetcher call that has just returned, and how
    last_days,        \* its argument last_days
    email_list,       \* the list it returned (EmailData, named by their uid)
    latest_entry_id,  \* the identifier it returned (NoEntryId: "")
    returnedBefore,   \* uids returned by the fetch calls before it
    seenBefore,       \* self.processed_ids when it was called
    connectCalls,     \* the connect() calls it made
    items_read,       \* the items[i] it read
    \* ---- ServerChanPusher and MultiChannelPusher
    sendkey_arg,      \* the sendkey the ServerChanPusher was constructed with
    sendkey,          \* ServerChanPusher.sendkey
    pushers,          \* MultiChannelPusher.pushers: the channels, in dict order
    pushOp,           \* the push call in progress, or that has just returned
    pushPc,           \* where that call stands: "idle" when it has returned
    attempt,          \* the loop variable of ServerChanPusher.push
    netlog,           \* what ServerChanPusher.push did: POSTs and sleeps
    scResult,         \* what ServerChanPusher.push returned
    channelCalls,     \* the channels MultiChannelPusher.push invoked, in order
    channelOutcomes,  \* what each of those invocations gave
    pushResult,       \* what MultiChannelPusher.push returned
    push_raised,      \* the exception that left a push call ("": none did)
    \* ---- EmailParser
    parseOp,          \* the parser call that has just ended
    parse_input,      \* its argument email_list
    api_answer,       \* what the model API did in it
    api_calls,        \* the calls of the model API it made
    parse_raised,     \* the exception that left it ("": it returned)
    parse_result,     \* the EmailSummaryResult it returned
    \* ---- AutoMailSystem and PureOutlookController: one run of main()
    runPc,            \* where the run stands
    sys_running,      \* AutoMailSystem.running
    ctl_running,      \* PureOutlookController.running
    entry_file,       \* what the last-entry-id file held when the run began
    file_reads,       \* the reads of that file
    file_writes,      \* the writes to that file, in order
    last_entry_id,    \* PureOutlookController.last_entry_id
    run_fetch,        \* what the run's fetch_emails returned
    run_summary,      \* what the run's parse_emails_batch call did
    run_log,          \* the stages the run went through, in order
    exit_code,        \* the exit status of the process (NoExit: still running)
    \* ---- an OutlookEmailFetcher made with an email_keyword, and its Outlook
    accounts,         \* the accounts Outlook holds, the default one first
    profile,          \* self.profile
    email_keyword,    \* self.email_keyword (<<>>: None or "")
    app,              \* TRUE iff its outlook_app is set
    namespace,        \* TRUE iff its namespace is set
    inbox,            \* the account whose inbox its inbox is (NoInbox: None)
    acctOp,           \* the call that has just returned
    acctCom,          \* what the COM layer did in it
    available,        \* what _get_available_accounts returned in it
    selected,         \* what _select_account_by_email_keyword returned in it
    switched,         \* the inbox _switch_to_account bound in it
    connect_ok,       \* what connect() returned
    \* ---- OutlookEmailFetcher.fetch_weekly_emails
    weekly_list,      \* the list its last call returned
    \* ---- the OutlookEmailFetcher of core/email_fetcher.py and its caller
    cur_app,          \* TRUE iff its outlook_app is set
    cur_op,           \* the call that has just returned
    cur_arg,          \* its argument last_entry_id (NoEntryId: '')
    cur_max,          \* its argument max_emails
    cur_box,          \* the inbox as it found it
    cur_list,         \* the list it returned
    cur_latest,       \* the identifier it returned
    cur_before,       \* the uids returned by the calls before it
    cur_newest_first  \* TRUE iff every call so far found the items newest first

fetchVars == <<mailbox, now, outlook_app, processed_ids, fetchOp, last_days,
               email_list, latest_entry_id, returnedBefore, seenBefore,
               connectCalls, items_read>>

pushVars == <<sendkey_arg, sendkey, pushers, pushOp, pushPc, attempt, netlog, scResult,
              channelCalls, channelOutcomes, pushResult, push_raised>>

parseVars == <<parseOp, parse_input, api_answer, api_calls, parse_raised,
               parse_result>>

runVars == <<runPc, sys_running, ctl_running, entry_file, file_reads,
             file_writes, last_entry_id, run_fetch, run_summary, run_log, exit_code>>

acctVars == <<accounts, profile, email_keyword, app, namespace, inbox, acctOp, acctCom,
              available, selected, switched, connect_ok>>

\* The variables of the components that stand beside the pipeline.
weeklyVars == <<weekly_list>>

cursorVars == <<cur_app, cur_op, cur_arg, cur_max, cur_box, cur_list, cur_latest, cur_before,
                cur_newest_first>>

sideVars == <<acctVars, weeklyVars, cursorVars>>

vars == <<fetchVars, pushVars, parseVars, runVars, sideVars>>

(***************************************************************************)
(* The mail source.  An item carries ReceivedTime as the COM layer hands   *)
(* it over: missing (timed = FALSE), naive local wall-clock time, or an    *)
(* aware time with UTC offset tz.  conv = FALSE marks an item whose        *)
(* conversion to EmailData raises.                                         *)
(***************************************************************************)
NoEntryId == 0

MailItem(instant, timed, aware, tz, conv) ==
    [timed |-> timed, aware |-> aware, tz |-> tz, conv |-> conv,
     rt |-> IF ~timed THEN 0
            ELSE IF aware THEN instant + tz ELSE instant + LocalOffset]

\* The instant an item was received at, whatever form its ReceivedTime has.
Instant(item) == IF item.aware THEN item.rt - item.tz ELSE item.rt - LocalOffset

ItemKinds ==
    {[timed |-> TRUE, aware |-> FALSE, tz |-> 0, conv |-> TRUE],
     [timed |-> TRUE, aware |-> FALSE, tz |-> 0, conv |-> FALSE],
     [timed |-> FALSE, aware |-> FALSE, tz |-> 0, conv |-> TRUE]}
    \cup {[timed |-> TRUE, aware |-> TRUE, tz |-> z, conv |-> TRUE] : z \in AwareOffsets}

Range(s) == {s[i] : i \in 1 .. Len(s)}

NoDup(s) == \A i, j \in 1 .. Len(s) : i # j => s[i] # s[j]

\* Every order of the sequences over S without repetition that cover S.
Perms(S) == {s \in [1 .. Cardinality(S) -> S] : Range(s) = S}

\* datetime.now(): the local naive wall-clock time.
LocalNow == now + LocalOffset

\* received_time.astimezone().replace(tzinfo=None) for an aware time; a naive
\* time is compared as it is.
NaiveLocal(item) ==
    IF item.aware THEN (item.rt - item.tz) + LocalOffset ELSE item.rt

\* cutoff_time = datetime.now() - timedelta(days=last_days)
Cutoff(days) == LocalNow - days * DayLen

\* received_time >= cutoff_time
InWindowMut(item, cutoff_time) == NaiveLocal(item) > cutoff_time
InWindow(item, cutoff_time) == NaiveLocal(item) >= cutoff_time

\* items.Sort("[ReceivedTime]", True): newest first.  Items received at the
\* same instant, and items without a time, may come in any place.
SortDescending(box) ==
    {order \in Perms(DOMAIN box) :
        \A i, j \in 1 .. Len(order) :
            (i < j /\ box[order[i]].timed /\ box[order[j]].timed)
                => Instant(box[order[i]]) >= Instant(box[order[j]])}

\* _convert_to_email_data: the EmailData (named by its uid), or None.
ConvertToEmailData(item) == item.conv

\* entry_id in self.processed_ids
AlreadyProcessedMut(entry_id, seen) == FALSE
AlreadyProcessed(entry_id, seen) == entry_id \in seen

\* `continue`: the scan goes on with the next item.
ContinueMut(order, i) == Len(order) + 1
Continue(order, i) == i + 1

ScanState(list, latest, seen) ==
    [email_list |-> list, latest_entry_id |-> latest, processed_ids |-> seen]

\* The loop of fetch_emails over items[i], i = 0 .. Count - 1.
RECURSIVE ScanWindow(_, _, _, _, _)
ScanWindow(box, order, i, cutoff_time, st) ==
    IF i > Len(order) THEN st
    ELSE LET entry_id == order[i]
             item == box[entry_id]
         IN  IF ~item.timed
             THEN ScanWindow(box, order, Continue(order, i), cutoff_time, st)
             ELSE IF InWindow(item, cutoff_time)
             THEN IF AlreadyProcessed(entry_id, st.processed_ids)
                  THEN ScanWindow(box, order, Continue(order, i), cutoff_time, st)
                  ELSE IF ConvertToEmailData(item)
                  THEN ScanWindow(box, order, i + 1, cutoff_time,
                           ScanState(Append(st.email_list, entry_id), entry_id,
                                     st.processed_ids \cup {entry_id}))
                  ELSE ScanWindow(box, order, Continue(order, i), cutoff_time, st)
             ELSE st                                                   \* break

\* The number of items[i] that loop reads: all of them, or those up to the
\* one it breaks at.
RECURSIVE ItemsRead(_, _, _, _)
ItemsRead(box, order, i, cutoff_time) ==
    IF i > Len(order) THEN 0
    ELSE IF box[order[i]].timed /\ ~InWindow(box[order[i]], cutoff_time) THEN 1
    ELSE 1 + ItemsRead(box, order, i + 1, cutoff_time)

\* fetch_emails reads inbox.Items only when _ensure_connection() gave True
\* and the Items collection can be had and sorted.
ReadsItemsMut(connected, itemsOk) == itemsOk
ReadsItems(connected, itemsOk) == connected /\ itemsOk

(***************************************************************************)
(* OutlookEmailFetcher.  The variables fetchOp .. connectCalls describe    *)
(* the call that has just returned; they are dropped (Returned) as soon as *)
(* anything else happens, the uids of a returned list being kept in        *)
(* returnedBefore.                                                         *)
(***************************************************************************)
Returned ==
    /\ last_days' = 0
    /\ email_list' = <<>>
    /\ latest_entry_id' = NoEntryId
    /\ seenBefore' = {}
    /\ returnedBefore' = returnedBefore \cup Range(email_list)
    /\ items_read' = 0

\* What a call of the fetcher leaves alone: the other components.
FetcherOnly == UNCHANGED <<pushVars, parseVars, runVars, sideVars>>

\* connect(): ok is whether the COM calls succeed.
ConnectCall(ok) ==
    /\ outlook_app' = ok
    /\ fetchOp' = "connect"
    /\ connectCalls' = 1
    /\ Returned
    /\ UNCHANGED <<mailbox, now, processed_ids>>

Connect(ok) == ConnectCall(ok) /\ FetcherOnly

\* disconnect() -> _cleanup()
DisconnectCall ==
    /\ outlook_app' = FALSE
    /\ fetchOp' = "disconnect"
    /\ connectCalls' = 0
    /\ Returned
    /\ UNCHANGED <<mailbox, now, processed_ids>>

Disconnect == DisconnectCall /\ FetcherOnly

\* _ensure_connection(): connect() is called only when outlook_app is unset.
EnsureConnection(connOk) == outlook_app \/ connOk

\* What the COM layer can do to a fetch call: connect() can fail only when it
\* is called, that is when outlook_app is unset.
ComOutcomes ==
    {[connOk |-> TRUE, itemsOk |-> TRUE], [connOk |-> TRUE, itemsOk |-> FALSE]}
    \cup (IF outlook_app THEN {} ELSE {[connOk |-> FALSE, itemsOk |-> TRUE]})

\* fetch_emails(days).  connOk: whether connect() succeeds if it is needed;
\* itemsOk: whether inbox.Items can be read and sorted; order: the order
\* Sort leaves the items in.
FetchEmailsCall(days, connOk, itemsOk, order) ==
    LET connected == EnsureConnection(connOk)
        start == ScanState(<<>>, NoEntryId, processed_ids)
        st == IF ReadsItems(connected, itemsOk)
              THEN ScanWindow(mailbox, order, 1, Cutoff(days), start)
              ELSE start
    IN  /\ order \in SortDescending(mailbox)
        /\ outlook_app' = connected
        /\ connectCalls' = IF outlook_app THEN 0 ELSE 1
        /\ fetchOp' = IF ~connected THEN "fetch_emails:no_connection"
                      ELSE IF ~itemsOk THEN "fetch_emails:error"
                      ELSE "fetch_emails"
        /\ last_days' = days
        /\ seenBefore' = processed_ids
        /\ returnedBefore' = returnedBefore \cup Range(email_list)
        /\ email_list' = st.email_list
        /\ latest_entry_id' = st.latest_entry_id
        /\ processed_ids' = st.processed_ids
        /\ items_read' = IF ReadsItems(connected, itemsOk)
                         THEN ItemsRead(mailbox, order, 1, Cutoff(days))
                         ELSE 0
        /\ UNCHANGED <<mailbox, now>>

FetchEmails(days, connOk, itemsOk, order) ==
    FetchEmailsCall(days, connOk, itemsOk, order) /\ FetcherOnly

\* A new mail arrives in the inbox; the source gives it the next entry id.
Deliver(id, kind) ==
    /\ id = Cardinality(DOMAIN mailbox) + 1
    /\ mailbox' = [x \in DOMAIN mailbox \cup {id} |->
                      IF x = id
                      THEN MailItem(now, kind.timed, kind.aware, kind.tz, kind.conv)
                      ELSE mailbox[x]]
    /\ fetchOp' = "none"
    /\ connectCalls' = 0
    /\ Returned
    /\ UNCHANGED <<now, outlook_app, processed_ids>>
    /\ FetcherOnly

\* Time passes.
Tick ==
    /\ now < MaxNow
    /\ now' = now + 1
    /\ fetchOp' = "none"
    /\ connectCalls' = 0
    /\ Returned
    /\ UNCHANGED <<mailbox, outlook_app, processed_ids>>
    /\ FetcherOnly

FetchInit ==
    /\ mailbox = <<>>
    /\ now = 0
    /\ outlook_app = FALSE
    /\ processed_ids = {}
    /\ fetchOp = "none"
    /\ last_days = 0
    /\ email_list = <<>>
    /\ latest_entry_id = NoEntryId
    /\ returnedBefore = {}
    /\ seenBefore = {}
    /\ connectCalls = 0
    /\ items_read = 0

FetchNext ==
    \/ \E ok \in BOOLEAN : Connect(ok)
    \/ Disconnect
    \/ \E days \in 0 .. MaxDays, com \in ComOutcomes,
          order \in SortDescending(mailbox) :
            FetchEmails(days, com.connOk, com.itemsOk, order)
    \/ \E id \in EntryIds, kind \in ItemKinds : Deliver(id, kind)
    \/ Tick

(***************************************************************************)
(* PushResult (models/pusher.py).  A message is the sequence of the text   *)
(* parts an f-string puts together.                                        *)
(***************************************************************************)
PushResult(success, message, push_id) ==
    [success |-> success, message |-> message, push_id |-> push_id]

NoResult == PushResult(FALSE, <<>>, "")

\* str(n) of a small number, as f"{self.max_retry}" formats it.
Str(n) ==
    CASE n = 0 -> "0" [] n = 1 -> "1" [] n = 2 -> "2" [] n = 3 -> "3"
      [] n = 4 -> "4" [] n = 5 -> "5" [] n = 6 -> "6" [] n = 7 -> "7"
      [] n = 8 -> "8" [] n = 9 -> "9" [] OTHER -> "many"

(***************************************************************************)
(* The webhook.  One answer to one POST: a JSON body (HTTP 2xx), an        *)
(* HTTPError with its status, a URLError, or a body that cannot be read    *)
(* as the JSON object the service documents (any other exception).         *)
(***************************************************************************)
Body(has_code, code, has_message, message, has_data, has_pushid, pushid) ==
    [has_code |-> has_code, code |-> code, has_message |-> has_message,
     message |-> message, has_data |-> has_data, has_pushid |-> has_pushid,
     pushid |-> pushid]

NoBody == Body(FALSE, 0, FALSE, "", FALSE, FALSE, "")

JsonBodies ==
    {Body(TRUE, 0, TRUE, "", TRUE, TRUE, "pushid-1"),
     Body(TRUE, 0, FALSE, "", FALSE, FALSE, ""),
     Body(TRUE, 0, FALSE, "", TRUE, FALSE, ""),
     Body(TRUE, 40001, TRUE, "bad sendkey", FALSE, FALSE, ""),
     Body(TRUE, 40001, FALSE, "", FALSE, FALSE, ""),
     Body(FALSE, 0, TRUE, "no code", FALSE, FALSE, "")}

HttpStatuses == {400, 404, 500}

Response(kind, status, body) == [kind |-> kind, status |-> status, body |-> body]

Responses ==
    {Response("json", 200, b) : b \in JsonBodies}
    \cup {Response("http_error", s, NoBody) : s \in HttpStatuses}
    \cup {Response("url_error", 0, NoBody), Response("unreadable", 200, NoBody)}

NoResponse == Response("none", 0, NoBody)

PostEvent(resp) == [ev |-> "post", resp |-> resp, delay |-> 0]
SleepEvent(delay) == [ev |-> "sleep", resp |-> NoResponse, delay |-> delay]

(***************************************************************************)
(* ServerChanPusher                                                        *)
(***************************************************************************)
max_retry == 3
retry_delay == 10

\* __init__: self.sendkey is set to the key written in the source, whatever
\* sendkey argument was given.
ServerChanInit(sendkey_given) == "SCT-key-in-source"

\* if result.get('code') == 0
CodeIsOkMut(body) == TRUE
CodeIsOk(body) == body.has_code /\ body.code = 0

\* The two returns that follow a body that was read.
JsonOutcome(body) ==
    IF CodeIsOk(body)
    THEN PushResult(TRUE, <<"push succeeded">>,
                    IF body.has_data /\ body.has_pushid THEN body.pushid ELSE "")
    ELSE PushResult(FALSE,
                    <<"push failed: ",
                      IF body.has_message THEN body.message ELSE "unknown error">>,
                    "")

\* except HTTPError: if e.code == 400: return
NonRetryableMut(status) == FALSE
NonRetryable(status) == status = 400

\* if attempt < self.max_retry - 1: time.sleep(self.retry_delay)
SleepsAfterMut(k) == TRUE
SleepsAfter(k) == k < max_retry - 1

\* The exception an answer that is no JSON body raises inside the try.
ExceptionOf(resp) ==
    CASE resp.kind = "http_error" -> "HTTPError"
      [] resp.kind = "url_error" -> "URLError"
      [] OTHER -> "Exception"

\* The except clauses of the try: HTTPError, URLError, Exception.
CaughtMut(exception) == exception \in {"HTTPError", "URLError"}
Caught(exception) == exception \in {"HTTPError", "URLError", "Exception"}

\* One pass of the loop body for attempt k (counted from 0) with the answer
\* resp: the events it adds to the log, the PushResult if push returns, and
\* the exception if one leaves push.
Attempt(k, resp) ==
    LET post == <<PostEvent(resp)>>
        retry == IF SleepsAfter(k)
                 THEN post \o <<SleepEvent(retry_delay)>> ELSE post
    IN  IF resp.kind = "json"
        THEN [events |-> post, returns |-> TRUE, raises |-> "",
              result |-> JsonOutcome(resp.body)]
        ELSE IF ~Caught(ExceptionOf(resp))
        THEN [events |-> post, returns |-> TRUE, raises |-> ExceptionOf(resp),
              result |-> NoResult]
        ELSE IF resp.kind = "http_error" /\ NonRetryable(resp.status)
        THEN [events |-> post, returns |-> TRUE, raises |-> "",
              result |-> PushResult(FALSE, <<"bad push parameters">>, "")]
        ELSE IF k + 1 < max_retry
        THEN [events |-> retry, returns |-> FALSE, raises |-> "", result |-> NoResult]
        ELSE [events |-> retry, returns |-> TRUE, raises |-> "",
              result |-> PushResult(FALSE,
                            <<"push failed, retried ", Str(max_retry), " times">>, "")]

\* The channels that are not built in: any object with push(title, content)
\* that is put into MultiChannelPusher.pushers.
OtherName(i) ==
    CASE i = 1 -> "channel1" [] i = 2 -> "channel2" [] i = 3 -> "channel3"
      [] OTHER -> "channel4"

OtherChannels == {OtherName(i) : i \in 1 .. MaxChannels}

\* What invoking such a channel can give: a PushResult, or an exception.
ChannelReturned(result) == [kind |-> "returned", result |-> result, error |-> ""]
ChannelRaised(error) == [kind |-> "raised", result |-> NoResult, error |-> error]

OtherOutcomes ==
    {ChannelReturned(PushResult(TRUE, <<"delivered">>, "pushid-2")),
     ChannelReturned(PushResult(FALSE, <<"rejected">>, "")),
     ChannelRaised("timed out")}

ClearCall ==
    /\ attempt' = 0
    /\ netlog' = <<>>
    /\ scResult' = NoResult
    /\ channelCalls' = <<>>
    /\ channelOutcomes' = <<>>
    /\ pushResult' = NoResult
    /\ push_raised' = ""

\* ServerChanPusher(sendkey = given)
NewServerChanPusher(given) ==
    /\ pushPc = "idle"
    /\ sendkey_arg' = given
    /\ sendkey' = ServerChanInit(given)
    /\ pushOp' = "none"
    /\ ClearCall
    /\ UNCHANGED <<pushers, pushPc>>
    /\ UNCHANGED <<fetchVars, parseVars, runVars, sideVars>>

\* MultiChannelPusher.__init__: self.channels = channels or ['serverchan'];
\* a pusher is made for 'serverchan' alone.
MultiChannelInit(channels) ==
    LET cs == IF channels = <<>> THEN <<"serverchan">> ELSE channels
    IN  IF "serverchan" \in Range(cs) THEN <<"serverchan">> ELSE <<>>

ChannelConfigs == {<<>>, <<"serverchan">>, <<OtherName(1)>>, <<OtherName(1), "serverchan">>}

\* MultiChannelPusher(channels = channels, serverchan_sendkey = given)
NewMultiChannelPusher(channels, given) ==
    /\ pushPc = "idle"
    /\ pushers' = MultiChannelInit(channels)
    /\ IF "serverchan" \in Range(pushers')
       THEN sendkey_arg' = given /\ sendkey' = ServerChanInit(given)
       ELSE UNCHANGED <<sendkey_arg, sendkey>>
    /\ pushOp' = "none"
    /\ ClearCall
    /\ UNCHANGED pushPc
    /\ UNCHANGED <<fetchVars, parseVars, runVars, sideVars>>

\* pushers[name] = a further channel
AddChannel(name) ==
    /\ pushPc = "idle"
    /\ Len(pushers) < MaxChannels
    /\ name \notin Range(pushers)
    /\ pushers' = Append(pushers, name)
    /\ pushOp' = "none"
    /\ ClearCall
    /\ UNCHANGED <<sendkey_arg, sendkey, pushPc>>
    /\ UNCHANGED <<fetchVars, parseVars, runVars, sideVars>>

\* if result.success: return result
ReturnsOnSuccessMut(result) == FALSE
ReturnsOnSuccess(result) == result.success

\* The PushResult that results.append() keeps for a channel that failed.
FailureOf(channel, outcome) ==
    IF outcome.kind = "raised"
    THEN PushResult(FALSE, <<channel, " exception: ", outcome.error>>, "")
    ELSE outcome.result

\* "; ".join([r.message for r in results])
RECURSIVE JoinMessages(_)
JoinMessages(results) ==
    IF results = <<>> THEN <<>>
    ELSE IF Len(results) = 1 THEN results[1].message
    ELSE results[1].message \o <<"; ">> \o JoinMessages(Tail(results))

\* The return after the loop over the channels.
AllFailedMut(results) == PushResult(FALSE, <<"all push channels failed: ">>, "")
AllFailed(results) ==
    IF results # <<>>
    THEN PushResult(FALSE, <<"all push channels failed: ">> \o JoinMessages(results), "")
    ELSE PushResult(FALSE, <<"push failed">>, "")

\* MultiChannelPusher.push after the channel invoked last gave `outcome`:
\* return it, go on to the next channel, or return the failure of all.
AfterChannel(calls, outcome) ==
    LET outcomes == Append(channelOutcomes, outcome)
        results == [i \in 1 .. Len(outcomes) |-> FailureOf(calls[i], outcomes[i])]
    IN  /\ channelOutcomes' = outcomes
        /\ IF outcome.kind = "returned" /\ ReturnsOnSuccess(outcome.result)
           THEN pushResult' = outcome.result /\ pushPc' = "idle"
           ELSE IF Len(calls) < Len(pushers)
           THEN pushResult' = NoResult /\ pushPc' = "channel"
           ELSE pushResult' = AllFailed(results) /\ pushPc' = "idle"

MissingKey == PushResult(FALSE, <<"sendkey not configured">>, "")

\* ServerChanPusher.push(title, content) is called.
ServerChanPush ==
    /\ pushPc = "idle"
    /\ pushOp' = "ServerChanPusher.push"
    /\ attempt' = 0
    /\ netlog' = <<>>
    /\ channelCalls' = <<>>
    /\ channelOutcomes' = <<>>
    /\ pushResult' = NoResult
    /\ push_raised' = ""
    /\ IF sendkey = ""
       THEN scResult' = MissingKey /\ pushPc' = "idle"
       ELSE scResult' = NoResult /\ pushPc' = "request"
    /\ UNCHANGED <<sendkey_arg, sendkey, pushers>>
    /\ UNCHANGED <<fetchVars, parseVars, runVars, sideVars>>

\* One pass of the loop of ServerChanPusher.push: the POST is answered by resp.
\* An exception that leaves it leaves a direct call, and is one more failed
\* channel for MultiChannelPusher.push.
Request(resp) ==
    LET a == Attempt(attempt, resp)
    IN  /\ pushPc = "request"
        /\ netlog' = netlog \o a.events
        /\ IF ~a.returns
           THEN /\ attempt' = attempt + 1
                /\ UNCHANGED <<scResult, pushPc, channelOutcomes, pushResult, push_raised>>
           ELSE /\ attempt' = attempt
                /\ scResult' = a.result
                /\ IF pushOp = "ServerChanPusher.push"
                   THEN /\ pushPc' = "idle"
                        /\ push_raised' = a.raises
                        /\ UNCHANGED <<channelOutcomes, pushResult>>
                   ELSE /\ AfterChannel(channelCalls,
                               IF a.raises # "" THEN ChannelRaised(a.raises)
                               ELSE ChannelReturned(a.result))
                        /\ UNCHANGED push_raised
        /\ UNCHANGED <<sendkey_arg, sendkey, pushers, pushOp, channelCalls>>
        /\ UNCHANGED <<fetchVars, parseVars, runVars, sideVars>>

\* MultiChannelPusher.push(title, content) is called.
MultiChannelPush ==
    /\ pushPc = "idle"
    /\ pushOp' = "MultiChannelPusher.push"
    /\ attempt' = 0
    /\ netlog' = <<>>
    /\ scResult' = NoResult
    /\ channelCalls' = <<>>
    /\ channelOutcomes' = <<>>
    /\ push_raised' = ""
    /\ IF pushers = <<>>
       THEN pushResult' = PushResult(FALSE, <<"no push channel configured">>, "")
            /\ pushPc' = "idle"
       ELSE pushResult' = NoResult /\ pushPc' = "channel"
    /\ UNCHANGED <<sendkey_arg, sendkey, pushers>>
    /\ UNCHANGED <<fetchVars, parseVars, runVars, sideVars>>

\* The loop of MultiChannelPusher.push reaches the next channel and calls its
\* push; `outcome` is what a channel that is not built in gives.
InvokeChannel(outcome) ==
    LET channel == pushers[Len(channelCalls) + 1]
        calls == Append(channelCalls, channel)
    IN  /\ pushPc = "channel"
        /\ channelCalls' = calls
        /\ IF channel = "serverchan"
           THEN IF sendkey = ""
                THEN /\ scResult' = MissingKey
                     /\ AfterChannel(calls, ChannelReturned(MissingKey))
                     /\ UNCHANGED <<attempt, netlog>>
                ELSE /\ pushPc' = "request"
                     /\ attempt' = 0
                     /\ UNCHANGED <<netlog, scResult, channelOutcomes, pushResult>>
           ELSE /\ AfterChannel(calls, outcome)
                /\ UNCHANGED <<attempt, netlog, scResult>>
        /\ UNCHANGED <<sendkey_arg, sendkey, pushers, pushOp, push_raised>>
        /\ UNCHANGED <<fetchVars, parseVars, runVars, sideVars>>

SendKeyArgs == {"", "SCT-key-of-user"}

\* ServerChanPusher() and MultiChannelPusher() with no arguments.
PushInit ==
    /\ sendkey_arg = ""
    /\ sendkey = ServerChanInit("")
    /\ pushers = MultiChannelInit(<<>>)
    /\ pushOp = "none"
    /\ pushPc = "idle"
    /\ attempt = 0
    /\ netlog = <<>>
    /\ scResult = NoResult
    /\ channelCalls = <<>>
    /\ channelOutcomes = <<>>
    /\ pushResult = NoResult
    /\ push_raised = ""

PushNext ==
    \/ \E given \in SendKeyArgs : NewServerChanPusher(given)
    \/ \E channels \in ChannelConfigs, given \in SendKeyArgs :
          NewMultiChannelPusher(channels, given)
    \/ \E name \in OtherChannels : AddChannel(name)
    \/ ServerChanPush
    \/ \E resp \in Responses : Request(resp)
    \/ MultiChannelPush
    \/ \E outcome \in OtherOutcomes : InvokeChannel(outcome)


(***************************************************************************)
(* Texts.  A str is the sequence of the pieces it is put together from; a  *)
(* piece is a text s of which the first n characters are kept.             *)
(***************************************************************************)
Text(s, n) == [s |-> s, n |-> n]

Min(a, b) == IF a <= b THEN a ELSE b

\* piece[:k]
Cut(piece, k) == Text(piece.s, Min(piece.n, k))

(***************************************************************************)
(* EmailData as the summarizer reads it: subject and content, each a str   *)
(* or None (from_dict keeps a None that the mapping holds).                *)
(***************************************************************************)
EmailData(subject_none, subject, content_none) ==
    [subject_none |-> subject_none, subject |-> subject, content_none |-> content_none]

EmailKinds ==
    {EmailData(FALSE, Text("subject", 30), FALSE),
     EmailData(FALSE, Text("subject", 60), FALSE),
     EmailData(TRUE, Text("", 0), FALSE),
     EmailData(FALSE, Text("subject", 30), TRUE)}

SeqsUpTo(S, n) == UNION {[1 .. k -> S] : k \in 0 .. n}

EmailLists == SeqsUpTo(EmailKinds, MaxBatch)

(***************************************************************************)
(* The model's answer.  The text of a completion is a sequence of lines:   *)
(* the important-mail line, the overall-summary line, the header           *)
(* "mail summaries:" that the parser knows, the header the prompt asks     *)
(* for, and the numbered lines "mail<num>: <text>".                        *)
(***************************************************************************)
Line(kind, flag, num, text) == [kind |-> kind, flag |-> flag, num |-> num, text |-> text]

ImportantLine(flag) == Line("important", flag, 0, Text("", 0))
OverallLine(text) == Line("overall", FALSE, 0, text)
SummariesHeader == Line("summaries_header", FALSE, 0, Text("", 0))
PromptHeader == Line("prompt_header", FALSE, 0, Text("", 0))
MailLine(num, text) == Line("mail", FALSE, num, text)
\* A line that holds a block of text between two delimiter characters.
BlockLine == Line("block", FALSE, 0, Text("block", 30))

\* The numbered lines for the numbers from k on: each one left out, or there
\* with a short or a long text.
RECURSIVE MailLines(_, _)
MailLines(k, n) ==
    IF k > n THEN {<<>>}
    ELSE LET rest == MailLines(k + 1, n)
         IN  rest \cup {<<MailLine(k, Text("summary", len))>> \o r :
                           len \in {40, 90}, r \in rest}

Completions ==
    {b \o i \o o \o h \o m :
        b \in {<<>>, <<BlockLine>>},
        i \in {<<>>, <<ImportantLine(TRUE)>>, <<ImportantLine(FALSE)>>},
        o \in {<<>>, <<OverallLine(Text("overall", 120))>>},
        h \in {<<>>, <<SummariesHeader>>, <<PromptHeader>>},
        m \in MailLines(1, MaxBatch + 1)}

\* What client.chat.completions.create gives: an exception, a response that
\* has no choices[0].message.content, one whose content is None, or a text.
ApiAnswer(kind, error, lines) == [kind |-> kind, error |-> error, lines |-> lines]

ApiAnswers ==
    {ApiAnswer("raises", "request timed out", <<>>),
     ApiAnswer("raises", "authentication failed", <<>>),
     ApiAnswer("malformed", "", <<>>),
     ApiAnswer("content_none", "", <<>>)}
    \cup {ApiAnswer("text", "", c) : c \in Completions}

(***************************************************************************)
(* EmailSummaryResult (models/parser.py)                                   *)
(***************************************************************************)
EmailSummaryResult(has_important_emails, overall_summary, email_summaries, push_title, push_content) ==
    [has_important_emails |-> has_important_emails,
     overall_summary |-> overall_summary,
     email_summaries |-> email_summaries,
     push_title |-> push_title,
     push_content |-> push_content]

NoSummaryResult == EmailSummaryResult(FALSE, <<>>, <<>>, <<>>, <<>>)

\* The result for an empty list.
NoNewMail ==
    EmailSummaryResult(FALSE, <<Text("no new mail this week", 6)>>, <<>>,
                       <<Text("mail summary of the week", 6)>>,
                       <<Text("no new mail this week", 6)>>)

\* The result of the except branch of parse_emails_batch; count is
\* len(email_list), error is str(e).
ParseFailed(error, count) ==
    EmailSummaryResult(FALSE,
        <<Text("parsing failed: ", 6), Text(error, 20)>>,
        [i \in 0 .. count - 1 |-> <<Text("parsing failed: ", 6), Text(error, 20)>>],
        <<Text("mail parsing failed", 6)>>,
        <<Text("cannot parse the mail of the week: ", 10), Text(error, 20)>>)

\* The result of the except branch of _parse_batch_response.
ResponseFailed(error, emails) ==
    EmailSummaryResult(FALSE,
        <<Text("parsing the response failed: ", 8), Text(error, 20)>>,
        [i \in 0 .. Len(emails) - 1 |-> <<Cut(emails[i + 1].subject, 80)>>],
        <<Text("mail parsing error", 6)>>,
        <<Text("error while parsing the response: ", 9), Text(error, 20)>>)

(***************************************************************************)
(* EmailParser                                                             *)
(***************************************************************************)
\* _build_batch_prompt: email.content[:200] and len(email.content) raise
\* TypeError when the content is None.
BuildBatchPromptRaises(emails) ==
    \E i \in 1 .. Len(emails) : emails[i].content_none

\* d[k] = v for a dict d.
DictPut(d, k, v) == [x \in DOMAIN d \cup {k} |-> IF x = k THEN v ELSE d[x]]

ParseState(section, has_important, overall, summaries) ==
    [section |-> section, has_important |-> has_important, overall |-> overall,
     summaries |-> summaries]

\* A line opens the section of the summaries when it starts with the header
\* the parser knows.
OpensSummariesMut(line) == line.kind \in {"summaries_header", "prompt_header", "block"}
OpensSummaries(line) == line.kind = "summaries_header"

\* The body of the loop over the lines of the response; count is
\* len(email_list).
ParseLine(line, count, st) ==
    IF line.kind = "important"
    THEN ParseState("important", line.flag, st.overall, st.summaries)
    ELSE IF line.kind = "overall"
    THEN ParseState("summary", st.has_important, <<line.text>>, st.summaries)
    ELSE IF OpensSummaries(line)
    THEN ParseState("summaries", st.has_important, st.overall, st.summaries)
    ELSE IF st.section = "summaries" /\ line.kind = "mail"
              /\ 1 <= line.num /\ line.num <= count
    THEN ParseState(st.section, st.has_important, st.overall,
                    DictPut(st.summaries, line.num - 1, <<Cut(line.text, 80)>>))
    ELSE st

RECURSIVE ParseLines(_, _, _, _)
ParseLines(lines, i, count, st) ==
    IF i > Len(lines) THEN st
    ELSE ParseLines(lines, i + 1, count, ParseLine(lines[i], count, st))

\* The summary given to a mail the response has none for: its subject, cut
\* to 50 characters, with "..." when it was longer.
DefaultSummary(email) ==
    IF email.subject.n > 50
    THEN <<Cut(email.subject, 50), Text("...", 3)>>
    ELSE <<Cut(email.subject, 50)>>

PushTitle(has_important) ==
    IF has_important THEN <<Text("important mail", 6)>>
    ELSE <<Text("mail summary of the week", 8)>>

\* _parse_batch_response(response, email_list): the result, or the exception
\* that leaves it.  Its except branch reads every subject, and so raises
\* itself when one is None.
Outcome(raised, error, result) == [raised |-> raised, error |-> error, result |-> result]

ParseBatchResponse(answer, emails) ==
    LET count == Len(emails)
        st == ParseLines(answer.lines, 1, count,
                         ParseState("none", FALSE, <<>>, <<>>))
        missing == {i \in 0 .. count - 1 : i \notin DOMAIN st.summaries}
        bodyRaises ==
            \/ answer.kind = "content_none"
            \/ \E i \in missing : emails[i + 1].subject_none
        handlerRaises == \E i \in 1 .. count : emails[i].subject_none
        summaries == [i \in 0 .. count - 1 |->
                         IF i \in missing THEN DefaultSummary(emails[i + 1])
                         ELSE st.summaries[i]]
    IN  IF ~bodyRaises
        THEN Outcome(FALSE, "",
                 EmailSummaryResult(st.has_important,
                     IF st.overall = <<>> THEN <<Text("no summary yet", 4)>>
                     ELSE st.overall,
                     summaries,
                     PushTitle(st.has_important),
                     <<Text(IF st.has_important THEN "important mail: yes"
                            ELSE "important mail: no", 7)>>
                         \o st.overall \o <<Text("mail summaries:", 5)>>
                         \o [i \in 1 .. count |-> summaries[i - 1][1]]))
        ELSE IF handlerRaises
        THEN Outcome(TRUE, "TypeError", NoSummaryResult)
        ELSE Outcome(FALSE, "",
                 ResponseFailed(IF answer.kind = "content_none"
                                THEN "AttributeError" ELSE "TypeError", emails))

\* `not email_list`
EmptyEmailListMut(emails) == FALSE
EmptyEmailList(emails) == emails = <<>>

\* parse_emails_batch(email_list): the result or the exception that leaves
\* it, and the number of calls of the model it made.
Summarized(raised, error, result, calls) ==
    [raised |-> raised, error |-> error, result |-> result, calls |-> calls]

ParseEmailsBatchCall(emails, answer) ==
    LET count == Len(emails)
        parsed == ParseBatchResponse(answer, emails)
        failure == IF answer.kind = "raises" THEN answer.error
                   ELSE IF answer.kind = "malformed" THEN "malformed response"
                   ELSE IF parsed.raised THEN parsed.error
                   ELSE ""
    IN  IF EmptyEmailList(emails)
        THEN Summarized(FALSE, "", NoNewMail, 0)
        ELSE IF BuildBatchPromptRaises(emails)
        THEN Summarized(TRUE, "TypeError", NoSummaryResult, 0)
        ELSE IF failure # ""
        THEN Summarized(FALSE, "", ParseFailed(failure, count), 1)
        ELSE Summarized(FALSE, "", parsed.result, 1)

\* parser.parse_emails_batch(emails) is called; answer is what the model API
\* does if it is called.  The parser keeps nothing from one call to the
\* next, so one call is followed from the state after construction.
ParseEmailsBatch(emails, answer) ==
    LET r == ParseEmailsBatchCall(emails, answer)
    IN  /\ parseOp = "none"
        /\ parseOp' = "parse_emails_batch"
        /\ parse_input' = emails
        /\ api_answer' = IF r.calls = 0 THEN ApiAnswer("none", "", <<>>) ELSE answer
        /\ api_calls' = r.calls
        /\ parse_raised' = IF r.raised THEN r.error ELSE ""
        /\ parse_result' = r.result
        /\ UNCHANGED <<fetchVars, pushVars, runVars, sideVars>>

ParseInit ==
    /\ parseOp = "none"
    /\ parse_input = <<>>
    /\ api_answer = ApiAnswer("none", "", <<>>)
    /\ api_calls = 0
    /\ parse_raised = ""
    /\ parse_result = NoSummaryResult

ParseNext ==
    /\ parseOp = "none"
    /\ \E emails \in EmailLists, answer \in ApiAnswers : ParseEmailsBatch(emails, answer)


(***************************************************************************)
(* One run of main(): AutoMailSystem.run and PureOutlookController.start.  *)
(* runPc tells where the run stands: "idle" (main() not yet entered),      *)
(* "starting" (the controller is made, start() is about to connect),       *)
(* "connected", "fetched", "parsed" (inside _process_cycle), "cycle_done"  *)
(* (_process_cycle has returned), "stopped" (start() has returned) and     *)
(* "exited".                                                               *)
(***************************************************************************)
NoExit == -1

\* An identifier a former run left in the last-entry-id file.
OldEntryId == MaxItems + 1

FileContents == {NoEntryId, OldEntryId}

\* What run() returns, and the exit status sys.exit() makes of it.
ReturnsNone == [none |-> TRUE, code |-> 0]
ReturnsCode(n) == [none |-> FALSE, code |-> n]

SysExit(ret) == IF ret.none THEN 0 ELSE ret.code

NoFetch == [emails |-> <<>>, latest_entry_id |-> NoEntryId]

\* The EmailData _convert_to_email_data makes: subject and content are str.
AsEmailData(uids) ==
    [i \in 1 .. Len(uids) |-> EmailData(FALSE, Text("subject", 30), FALSE)]

\* What the model API can do in a run.
RunAnswers ==
    {ApiAnswer("raises", "request timed out", <<>>), ApiAnswer("malformed", "", <<>>)}
    \cup {ApiAnswer("text", "",
              <<ImportantLine(TRUE), OverallLine(Text("overall", 120)),
                SummariesHeader, MailLine(1, Text("summary", 40))>>)}

NoSummary == Summarized(FALSE, "", NoSummaryResult, 0)

Logged(stage) == run_log' = Append(run_log, stage)

\* The run has left run(): _cleanup() stops the controller if there is one,
\* and main() hands the return value to sys.exit().
RunExits(ret, has_controller) ==
    /\ runPc' = "exited"
    /\ exit_code' = SysExit(ret)
    /\ ctl_running' = IF has_controller THEN FALSE ELSE ctl_running

\* main() up to controller.start(): config is what run() finds ("create":
\* --create-config was given; "missing": no configuration file), content is
\* what _load_last_entry_id finds in the last-entry-id file (NoEntryId: no
\* file, an empty or an unreadable one), ctorOk whether the controller's
\* components can be made.
RunBegin(config, content, ctorOk) ==
    /\ runPc = "idle"
    /\ entry_file' = content
    /\ IF config # "present"
       THEN /\ RunExits(ReturnsNone, FALSE)
            /\ Logged(IF config = "create" THEN "sample_config" ELSE "no_config")
            /\ UNCHANGED <<sys_running, file_reads, last_entry_id>>
       ELSE /\ file_reads' = IF content # NoEntryId THEN file_reads + 1 ELSE file_reads
            /\ last_entry_id' = content
            /\ IF ctorOk
               THEN /\ runPc' = "starting"
                    /\ sys_running' = TRUE
                    /\ Logged("begin")
                    /\ UNCHANGED <<ctl_running, exit_code>>
               ELSE /\ RunExits(ReturnsCode(1), FALSE)
                    /\ Logged("controller_raised")
                    /\ UNCHANGED sys_running
    /\ UNCHANGED <<file_writes, run_fetch, run_summary>>
    /\ UNCHANGED <<fetchVars, pushVars, parseVars, sideVars>>

\* run(): `success = self.controller.start()`, then `return 1` when it is
\* False and `return 0` at the end.
RunReturnsMut(success) == ReturnsNone
RunReturns(success) == IF success THEN ReturnsCode(0) ELSE ReturnsCode(1)

\* start(): `if not self.fetcher.connect(): return False`.
ConnectFailedAbortsMut(ok) == FALSE
ConnectFailedAborts(ok) == ~ok

Start(ok) ==
    /\ runPc = "starting"
    /\ ConnectCall(ok)
    /\ IF ConnectFailedAborts(ok)
       THEN RunExits(RunReturns(FALSE), TRUE)
       ELSE runPc' = "connected" /\ UNCHANGED <<ctl_running, exit_code>>
    /\ Logged(IF ok THEN "connect" ELSE "connect_failed")
    /\ UNCHANGED <<sys_running, entry_file, file_reads, file_writes, last_entry_id,
                   run_fetch, run_summary>>
    /\ UNCHANGED <<pushVars, parseVars, sideVars>>

\* The argument of fetch_emails in _process_cycle (line 96) is the literal
\* 1, whatever self.last_entry_id holds.
RunLastDaysMut(marker) == IF marker = NoEntryId THEN 1 ELSE 0
RunLastDays(marker) == 1

\* _process_cycle, step 1: emails, latest_entry_id = fetcher.fetch_emails(1);
\* without emails it returns; with emails the identifier, if there is one,
\* becomes last_entry_id.
RunFetch(connOk, itemsOk, order) ==
    /\ runPc = "connected"
    /\ FetchEmailsCall(RunLastDays(last_entry_id), connOk, itemsOk, order)
    /\ run_fetch' = [emails |-> email_list', latest_entry_id |-> latest_entry_id']
    /\ last_entry_id' = IF email_list' # <<>> /\ latest_entry_id' # NoEntryId
                        THEN latest_entry_id' ELSE last_entry_id
    /\ runPc' = IF email_list' = <<>> THEN "cycle_done" ELSE "fetched"
    /\ Logged("fetch")
    /\ UNCHANGED <<sys_running, ctl_running, entry_file, file_reads, file_writes,
                   run_summary, exit_code>>
    /\ UNCHANGED <<pushVars, parseVars, sideVars>>

\* _process_cycle: `except Exception` (line 115) catches what a stage
\* raises, so that no exception leaves the cycle.
EscapesCycleMut(raised) == raised
EscapesCycle(raised) == FALSE

\* An exception has left _process_cycle.
Escaped ==
    \E i \in 1 .. Len(run_log) :
        run_log[i] \in {"parse_escaped", "push_arguments_escaped"}

\* _handle_emails_batch, line 155: batch_result = parse_emails_batch(emails).
\* An exception that leaves it is caught by _process_cycle.
RunParse(answer) ==
    LET r == ParseEmailsBatchCall(AsEmailData(run_fetch.emails), answer)
    IN  /\ runPc = "fetched"
        /\ run_summary' = r
        /\ runPc' = IF r.raised THEN "cycle_done" ELSE "parsed"
        /\ Logged(IF EscapesCycle(r.raised) THEN "parse_escaped" ELSE "parse")
        /\ UNCHANGED <<sys_running, ctl_running, entry_file, file_reads, file_writes,
                       last_entry_id, run_fetch, exit_code>>
        /\ UNCHANGED <<fetchVars, pushVars, parseVars, sideVars>>

\* The attributes of an EmailSummaryResult.
EmailSummaryResultAttributes ==
    {"has_important_emails", "overall_summary", "email_summaries", "push_title",
     "push_content", "to_dict", "from_dict"}

\* batch_result.split('\n') raises AttributeError unless the result has a
\* split.
SplitRaises(batch_result) == "split" \notin EmailSummaryResultAttributes

\* _handle_emails_batch, line 157:
\* pusher.push(batch_result.split('\n')[0], batch_result).  The argument is
\* evaluated first; the AttributeError is caught by _process_cycle.
RunPush ==
    /\ runPc = "parsed"
    /\ runPc' = "cycle_done"
    /\ IF SplitRaises(run_summary.result)
       THEN Logged(IF EscapesCycle(TRUE) THEN "push_arguments_escaped"
                   ELSE "push_arguments_raised")
       ELSE Logged("push")
    /\ UNCHANGED <<sys_running, ctl_running, entry_file, file_reads, file_writes,
                   last_entry_id, run_fetch, run_summary, exit_code>>
    /\ UNCHANGED <<fetchVars, pushVars, parseVars, sideVars>>

\* _shutdown saves last_entry_id when it is not empty.
SavesEntryIdMut(entry_id) == TRUE
SavesEntryId(entry_id) == entry_id # NoEntryId

\* _shutdown disconnects the fetcher.
ShutdownDisconnectsMut == FALSE
ShutdownDisconnects == TRUE

\* The finally of start(): _shutdown().  writeOk: whether the file can be
\* written.
Shutdown(writeOk) ==
    /\ runPc = "cycle_done"
    /\ IF SavesEntryId(last_entry_id)
       THEN file_writes' = Append(file_writes, [entry_id |-> last_entry_id, ok |-> writeOk])
       ELSE UNCHANGED file_writes
    /\ IF ShutdownDisconnects
       THEN DisconnectCall
       ELSE UNCHANGED fetchVars
    /\ runPc' = "stopped"
    /\ Logged("shutdown")
    /\ UNCHANGED <<sys_running, ctl_running, entry_file, file_reads, last_entry_id, run_fetch,
                   run_summary, exit_code>>
    /\ UNCHANGED <<pushVars, parseVars, sideVars>>

\* start(): `return True` after _process_cycle (line 80), `return False`
\* when an exception left it (lines 81-83).
StartResult == ~Escaped

\* start() has returned, after its finally: run() returns 0 or 1.
RunReturn ==
    /\ runPc = "stopped"
    /\ RunExits(RunReturns(StartResult), TRUE)
    /\ Logged("return")
    /\ UNCHANGED <<sys_running, entry_file, file_reads, file_writes, last_entry_id,
                   run_fetch, run_summary>>
    /\ UNCHANGED <<fetchVars, pushVars, parseVars, sideVars>>

Signalled == \E i \in 1 .. Len(run_log) : run_log[i] = "signal"

\* _signal_handler, on SIGINT or SIGTERM: controller.stop() and
\* self.running = False.  The first signal is followed; a further one does
\* the same again.
Signal ==
    /\ runPc \notin {"idle", "exited"}
    /\ ~Signalled
    /\ ctl_running' = FALSE
    /\ sys_running' = FALSE
    /\ Logged("signal")
    /\ UNCHANGED <<runPc, entry_file, file_reads, file_writes, last_entry_id,
                   run_fetch, run_summary, exit_code>>
    /\ UNCHANGED <<fetchVars, pushVars, parseVars, sideVars>>

RunInit ==
    /\ runPc = "idle"
    /\ sys_running = FALSE
    /\ ctl_running = FALSE
    /\ entry_file = NoEntryId
    /\ file_reads = 0
    /\ file_writes = <<>>
    /\ last_entry_id = NoEntryId
    /\ run_fetch = NoFetch
    /\ run_summary = NoSummary
    /\ run_log = <<>>
    /\ exit_code = NoExit

\* Mail arrives and time passes before the run; the run itself is short.
RunNext ==
    \/ runPc = "idle" /\ \E id \in EntryIds, kind \in ItemKinds : Deliver(id, kind)
    \/ runPc = "idle" /\ Tick
    \/ runPc = "idle" /\ \E config \in {"create", "missing", "present"},
                            content \in FileContents, ctorOk \in BOOLEAN :
                              RunBegin(config, content, ctorOk)
    \/ runPc = "starting" /\ \E ok \in BOOLEAN : Start(ok)
    \/ runPc = "connected" /\ \E com \in ComOutcomes, order \in SortDescending(mailbox) :
                                 RunFetch(com.connOk, com.itemsOk, order)
    \/ runPc = "fetched" /\ \E answer \in RunAnswers : RunParse(answer)
    \/ RunPush
    \/ \E writeOk \in {TRUE} \cup {SavesEntryId(last_entry_id) => FALSE} :
            Shutdown(writeOk)
    \/ RunReturn
    \/ Signal

(***************************************************************************)
(* OutlookEmailFetcher.fetch_all_emails and fetch_weekly_emails.  Both     *)
(* sort with Sort("[ReceivedTime]", False): oldest first.                  *)
(***************************************************************************)
SortAscending(box) ==
    {order \in Perms(DOMAIN box) :
        \A i, j \in 1 .. Len(order) :
            (i < j /\ box[order[i]].timed /\ box[order[j]].timed)
                => Instant(box[order[i]]) <= Instant(box[order[j]])}

\* self.processed_ids.add(entry_id)
MarkProcessedMut(seen, entry_id) == seen
MarkProcessed(seen, entry_id) == seen \cup {entry_id}

\* The loop of fetch_all_emails: every item that is not yet seen and that
\* converts is returned, timed or not.
RECURSIVE ScanAll(_, _, _, _)
ScanAll(box, order, i, st) ==
    IF i > Len(order) THEN st
    ELSE LET entry_id == order[i]
             item == box[entry_id]
         IN  IF AlreadyProcessed(entry_id, st.processed_ids)
             THEN ScanAll(box, order, i + 1, st)
             ELSE IF ConvertToEmailData(item)
             THEN ScanAll(box, order, i + 1,
                      ScanState(Append(st.email_list, entry_id), entry_id,
                                MarkProcessed(st.processed_ids, entry_id)))
             ELSE ScanAll(box, order, i + 1, st)

\* fetch_all_emails()
FetchAllEmails(connOk, itemsOk, order) ==
    LET connected == EnsureConnection(connOk)
        start == ScanState(<<>>, NoEntryId, processed_ids)
        st == IF ReadsItems(connected, itemsOk)
              THEN ScanAll(mailbox, order, 1, start)
              ELSE start
    IN  /\ order \in SortAscending(mailbox)
        /\ outlook_app' = connected
        /\ connectCalls' = IF outlook_app THEN 0 ELSE 1
        /\ fetchOp' = IF ~connected THEN "fetch_all_emails:no_connection"
                      ELSE IF ~itemsOk THEN "fetch_all_emails:error"
                      ELSE "fetch_all_emails"
        /\ last_days' = 0
        /\ seenBefore' = processed_ids
        /\ returnedBefore' = returnedBefore \cup Range(email_list)
        /\ email_list' = st.email_list
        /\ latest_entry_id' = st.latest_entry_id
        /\ processed_ids' = st.processed_ids
        /\ items_read' = IF ReadsItems(connected, itemsOk) THEN Len(order) ELSE 0
        /\ UNCHANGED <<mailbox, now>>
        /\ FetcherOnly

\* one_week_ago = datetime.now() - timedelta(days=7)
OneWeekAgo == LocalNow - 7 * DayLen

\* The loop of fetch_weekly_emails: received_time is compared as it is, so
\* an aware one raises TypeError and the item is passed over; an item
\* without a time, or older than a week, ends the loop.
RECURSIVE ScanWeek(_, _, _, _)
ScanWeek(box, order, i, list) ==
    IF i > Len(order) THEN list
    ELSE LET entry_id == order[i]
             item == box[entry_id]
         IN  IF item.timed /\ item.aware
             THEN ScanWeek(box, order, i + 1, list)
             ELSE IF item.timed /\ item.rt >= OneWeekAgo
             THEN IF ConvertToEmailData(item)
                  THEN ScanWeek(box, order, i + 1, Append(list, entry_id))
                  ELSE ScanWeek(box, order, i + 1, list)
             ELSE list                                                 \* break

\* fetch_weekly_emails()
FetchWeeklyEmails(connOk, itemsOk, order) ==
    LET connected == EnsureConnection(connOk)
    IN  /\ order \in SortAscending(mailbox)
        /\ outlook_app' = connected
        /\ connectCalls' = IF outlook_app THEN 0 ELSE 1
        /\ fetchOp' = IF ~connected THEN "fetch_weekly_emails:no_connection"
                      ELSE IF ~itemsOk THEN "fetch_weekly_emails:error"
                      ELSE "fetch_weekly_emails"
        /\ weekly_list' = IF ReadsItems(connected, itemsOk)
                          THEN ScanWeek(mailbox, order, 1, <<>>)
                          ELSE <<>>
        /\ Returned
        /\ UNCHANGED <<mailbox, now, processed_ids>>
        /\ UNCHANGED <<pushVars, parseVars, runVars, acctVars, cursorVars>>

WeeklyInit == weekly_list = <<>>

\* Every public call of one fetcher.
SeenNext ==
    \/ FetchNext
    \/ \E c \in ComOutcomes, order \in SortAscending(mailbox) :
          FetchAllEmails(c.connOk, c.itemsOk, order)
    \/ \E c \in ComOutcomes, order \in SortAscending(mailbox) :
          FetchWeeklyEmails(c.connOk, c.itemsOk, order)

(***************************************************************************)
(* core/auto_email_fetcher.py: OutlookAutoFetcher, which wraps one         *)
(* OutlookEmailFetcher, and the functions fetch_emails_auto,               *)
(* fetch_outlook_emails and fetch_emails, which make a fetcher of their    *)
(* own for one call.                                                       *)
(***************************************************************************)
\* OutlookAutoFetcher.fetch_emails(last_uid, max_emails):
\* return self.fetcher.fetch_emails(max_emails).  The first parameter of
\* OutlookEmailFetcher.fetch_emails is last_days.
AutoFetcherFetchEmails(max_emails, connOk, itemsOk, order) ==
    FetchEmailsCall(max_emails, connOk, itemsOk, order) /\ FetcherOnly

\* fetch_emails_auto(last_uid, max_emails, profile), and fetch_emails, which
\* hands its arguments on to it: fetch_outlook_emails makes a fetcher (not
\* connected, nothing seen), calls its fetch_emails(max_emails) and
\* disconnects it.  The fetcher the variables describe takes no part.
FetchEmailsAuto(max_emails, connOk, itemsOk, order) ==
    LET start == ScanState(<<>>, NoEntryId, {})
        st == IF ReadsItems(connOk, itemsOk)
              THEN ScanWindow(mailbox, order, 1, Cutoff(max_emails), start)
              ELSE start
    IN  /\ order \in SortDescending(mailbox)
        /\ fetchOp' = "fetch_emails_auto"
        /\ connectCalls' = 1
        /\ last_days' = max_emails
        /\ seenBefore' = {}
        /\ returnedBefore' = returnedBefore \cup Range(email_list)
        /\ email_list' = st.email_list
        /\ latest_entry_id' = st.latest_entry_id
        /\ items_read' = IF ReadsItems(connOk, itemsOk)
                         THEN ItemsRead(mailbox, order, 1, Cutoff(max_emails))
                         ELSE 0
        /\ UNCHANGED <<mailbox, now, outlook_app, processed_ids>>
        /\ FetcherOnly

\* What the COM layer can do to a fetcher that is not connected.
FreshComOutcomes ==
    {[connOk |-> TRUE, itemsOk |-> TRUE], [connOk |-> TRUE, itemsOk |-> FALSE],
     [connOk |-> FALSE, itemsOk |-> TRUE]}

\* OutlookAutoFetcher.connect and .disconnect are those of its fetcher.
AutoNext ==
    \/ \E ok \in BOOLEAN : Connect(ok)
    \/ Disconnect
    \/ \E max_emails \in 0 .. MaxDays, c \in ComOutcomes,
          order \in SortDescending(mailbox) :
            AutoFetcherFetchEmails(max_emails, c.connOk, c.itemsOk, order)
    \/ \E max_emails \in 0 .. MaxDays, c \in FreshComOutcomes,
          order \in SortDescending(mailbox) :
            FetchEmailsAuto(max_emails, c.connOk, c.itemsOk, order)
    \/ \E id \in EntryIds, kind \in ItemKinds : Deliver(id, kind)
    \/ Tick

(***************************************************************************)
(* core/email_fetcher.py: the OutlookEmailFetcher that is given the        *)
(* identifier its last call returned.  The caller is followed as it calls  *)
(* again and again, each time with the identifier of the call before.      *)
(***************************************************************************)
\* The order the loop finds the items in: the one                           
\* Sort("[ReceivedTime]", False) leaves, oldest first, or, for an Items
\* without a Sort, the one the collection has.
ItemOrders(hasSort) ==
    IF hasSort THEN SortAscending(mailbox) ELSE Perms(DOMAIN mailbox)

CursorState(list, latest) == [email_list |-> list, latest_entry_id |-> latest]

\* The loop over items[i], i = 0 .. min(max_emails, count) - 1; n is that
\* minimum.
RECURSIVE ScanCursor(_, _, _, _, _, _)
ScanCursor(box, order, i, n, last, st) ==
    IF i > n THEN st
    ELSE LET entry_id == order[i]
         IN  IF last # NoEntryId /\ entry_id = last
             THEN st                                                   \* break
             ELSE IF ConvertToEmailData(box[entry_id])
             THEN ScanCursor(box, order, i + 1, n, last,
                      CursorState(Append(st.email_list, entry_id), entry_id))
             ELSE ScanCursor(box, order, i + 1, n, last, st)

\* fetcher.fetch_emails(last_entry_id, max_emails), with the identifier the
\* call before returned as last_entry_id.
CursorFetchCall(max_emails, connOk, itemsOk, hasSort, order) ==
    LET last == cur_latest
        is_connected == cur_app \/ connOk
        start == CursorState(<<>>, last)
        st == IF is_connected /\ itemsOk
              THEN ScanCursor(mailbox, order, 1, Min(max_emails, Len(order)), last, start)
              ELSE start
    IN  /\ order \in ItemOrders(hasSort)
        /\ cur_op' = IF ~is_connected THEN "fetch_emails:no_connection"
                     ELSE IF ~itemsOk THEN "fetch_emails:error"
                     ELSE "fetch_emails"
        /\ cur_arg' = last
        /\ cur_max' = max_emails
        /\ cur_box' = mailbox
        /\ cur_list' = st.email_list
        /\ cur_latest' = st.latest_entry_id
        /\ cur_before' = cur_before \cup Range(cur_list)
        /\ cur_newest_first' =
              (cur_newest_first /\ order \in SortDescending(mailbox))
        /\ UNCHANGED <<fetchVars, pushVars, parseVars, runVars, acctVars, weeklyVars>>

\* OutlookEmailFetcher.fetch_emails: the connection is kept.
CursorFetchEmails(max_emails, connOk, itemsOk, hasSort, order) ==
    /\ CursorFetchCall(max_emails, connOk, itemsOk, hasSort, order)
    /\ cur_app' = (cur_app \/ connOk)

\* fetch_emails_outlook: the fetcher of the pool fetches and is
\* disconnected.
FetchEmailsOutlook(max_emails, connOk, itemsOk, hasSort, order) ==
    /\ CursorFetchCall(max_emails, connOk, itemsOk, hasSort, order)
    /\ cur_app' = FALSE

CursorComOutcomes ==
    {[connOk |-> TRUE, itemsOk |-> TRUE], [connOk |-> TRUE, itemsOk |-> FALSE]}
    \cup (IF cur_app THEN {} ELSE {[connOk |-> FALSE, itemsOk |-> TRUE]})

CursorInit ==
    /\ cur_app = FALSE
    /\ cur_op = "none"
    /\ cur_arg = NoEntryId
    /\ cur_max = 0
    /\ cur_box = <<>>
    /\ cur_list = <<>>
    /\ cur_latest = NoEntryId
    /\ cur_before = {}
    /\ cur_newest_first = TRUE

CursorNext ==
    \/ \E max_emails \in 0 .. MaxItems, c \in CursorComOutcomes, hasSort \in BOOLEAN :
          \E order \in ItemOrders(hasSort) :
              CursorFetchEmails(max_emails, c.connOk, c.itemsOk, hasSort, order)
    \/ \E max_emails \in 0 .. MaxItems, c \in CursorComOutcomes, hasSort \in BOOLEAN :
          \E order \in ItemOrders(hasSort) :
              FetchEmailsOutlook(max_emails, c.connOk, c.itemsOk, hasSort, order)
    \/ \E id \in EntryIds, kind \in ItemKinds : Deliver(id, kind)
    \/ Tick

(***************************************************************************)
(* connect() of an OutlookEmailFetcher that was made with an               *)
(* email_keyword.  A str is the sequence of its characters.  Outlook       *)
(* holds accounts, each with a display name, an address and a store; the   *)
(* default account is the first.  An inbox is named by the place of its    *)
(* account.                                                                *)
(***************************************************************************)
\* str.lower(), on the characters that occur.
LowerChar(c) ==
    CASE c = "A" -> "a" [] c = "B" -> "b" [] c = "H" -> "h"
      [] c = "O" -> "o" [] c = "W" -> "w" [] OTHER -> c

Lower(s) == [i \in 1 .. Len(s) |-> LowerChar(s[i])]

\* part in s
Occurs(part, s) ==
    \E k \in 0 .. Len(s) - Len(part) : \A n \in 1 .. Len(part) : s[k + n] = part[n]

Account(name, address, store) == [name |-> name, address |-> address, store |-> store]

Work == Account(<<"W">>, <<"a", "@", "x">>, <<"a", "@", "x">>)
Home == Account(<<"H">>, <<"B", "@", "y">>, <<"B", "@", "y">>)

AccountConfigs == {<<Work>>, <<Work, Home>>, <<Home, Work>>}

\* The default of the parameter profile, and a profile named by the user.
ProfileNames == {<<"O", "u", "t", "l", "o", "o", "k">>, <<"b">>}

Keywords == {<<>>, <<"A">>, <<"b">>, <<"z">>}

NoInbox == 0

\* namespace.GetDefaultFolder(6): the inbox of the default account.
GetDefaultFolder == 1

\* What the COM layer does in one connect(): ok, whether CoInitialize,
\* Dispatch, GetNamespace and GetDefaultFolder succeed; profilesOk, whether
\* namespace.Session.Profiles can be listed; hasAddress, whether the
\* namespace has a CurrentUserAddress; storesOk, whether namespace.Stores can
\* be listed; logonOk, whether Logon(account_name) succeeds.
AccountCom(ok, profilesOk, hasAddress, storesOk, logonOk) ==
    [ok |-> ok, profilesOk |-> profilesOk, hasAddress |-> hasAddress,
     storesOk |-> storesOk, logonOk |-> logonOk]

NoCom == AccountCom(FALSE, FALSE, FALSE, FALSE, FALSE)

AccountComs ==
    {AccountCom(TRUE, p, a, s, l) : p \in BOOLEAN, a \in BOOLEAN, s \in BOOLEAN,
                                    l \in BOOLEAN}
    \cup {AccountCom(FALSE, TRUE, TRUE, TRUE, TRUE)}

\* [(self.profile, self.profile)]
ProfileAsAccount(prof) == <<[name |-> prof, address |-> prof]>>

\* _get_available_accounts: without outlook_app or namespace, and when the
\* profiles cannot be listed, the profile stands for the account; else each
\* profile comes with the CurrentUserAddress of the namespace, or with its
\* own name when there is none.  The machine has the one profile.
GetAvailableAccounts(app_set, namespace_set, prof, accts, c) ==
    IF ~app_set \/ ~namespace_set THEN ProfileAsAccount(prof)
    ELSE IF ~c.profilesOk THEN ProfileAsAccount(prof)
    ELSE <<[name |-> prof,
            address |-> IF c.hasAddress THEN accts[GetDefaultFolder].address ELSE prof]>>

First(S) == CHOOSE i \in S : \A j \in S : i <= j

\* _select_account_by_email_keyword: the name of the first account whose
\* address holds the keyword, both in lower case; <<>> is None.
SelectAccountByEmailKeyword(keyword, avail) ==
    LET hits == {i \in 1 .. Len(avail) : Occurs(Lower(keyword), Lower(avail[i].address))}
    IN  IF hits = {} THEN <<>> ELSE avail[First(hits)].name

\* _switch_to_account: the inbox of the first store whose DisplayName holds
\* the account name is bound to self.inbox; without such a store, Logon is
\* tried.
SwitchToAccount(account_name, accts, c) ==
    LET hits == {i \in 1 .. Len(accts) :
                    Occurs(Lower(account_name), Lower(accts[i].store))}
    IN  IF c.storesOk /\ hits # {}
        THEN [ok |-> TRUE, bound |-> First(hits)]
        ELSE [ok |-> c.logonOk, bound |-> NoInbox]

\* _cleanup()
AccountCleanup ==
    /\ app' = FALSE
    /\ namespace' = FALSE
    /\ inbox' = NoInbox

\* OutlookEmailFetcher(profile = prof, email_keyword = keyword)
NewFetcher(prof, keyword) ==
    /\ profile' = prof
    /\ email_keyword' = keyword
    /\ AccountCleanup
    /\ acctOp' = "new"
    /\ acctCom' = NoCom
    /\ available' = <<>>
    /\ selected' = <<>>
    /\ switched' = NoInbox
    /\ connect_ok' = FALSE
    /\ UNCHANGED accounts
    /\ UNCHANGED <<fetchVars, pushVars, parseVars, runVars, weeklyVars, cursorVars>>

\* connect(): line 68 sets outlook_app; with a keyword an account is looked
\* for (namespace is still what it was before the call) and switched to;
\* line 91 then binds self.inbox to namespace.GetDefaultFolder(6).
ConnectAccount(c) ==
    LET with_keyword == email_keyword # <<>>
        avail == IF with_keyword
                 THEN GetAvailableAccounts(TRUE, namespace, profile, accounts, c)
                 ELSE <<>>
        sel == IF with_keyword THEN SelectAccountByEmailKeyword(email_keyword, avail)
               ELSE <<>>
        sw == IF sel # <<>> THEN SwitchToAccount(sel, accounts, c)
              ELSE [ok |-> FALSE, bound |-> NoInbox]
    IN  /\ acctOp' = "connect"
        /\ acctCom' = c
        /\ connect_ok' = c.ok
        /\ IF c.ok
           THEN /\ app' = TRUE
                /\ namespace' = TRUE
                /\ inbox' = GetDefaultFolder
                /\ available' = avail
                /\ selected' = sel
                /\ switched' = sw.bound
           ELSE /\ AccountCleanup
                /\ available' = <<>>
                /\ selected' = <<>>
                /\ switched' = NoInbox
        /\ UNCHANGED <<accounts, profile, email_keyword>>
        /\ UNCHANGED <<fetchVars, pushVars, parseVars, runVars, weeklyVars, cursorVars>>

\* disconnect()
DisconnectAccount ==
    /\ AccountCleanup
    /\ acctOp' = "disconnect"
    /\ acctCom' = NoCom
    /\ available' = <<>>
    /\ selected' = <<>>
    /\ switched' = NoInbox
    /\ connect_ok' = FALSE
    /\ UNCHANGED <<accounts, profile, email_keyword>>
    /\ UNCHANGED <<fetchVars, pushVars, parseVars, runVars, weeklyVars, cursorVars>>

\* The user adds or removes accounts in Outlook while no fetcher is
\* connected.
ConfigureOutlook(accts) ==
    /\ ~app
    /\ accounts' = accts
    /\ acctOp' = "none"
    /\ acctCom' = NoCom
    /\ available' = <<>>
    /\ selected' = <<>>
    /\ switched' = NoInbox
    /\ connect_ok' = FALSE
    /\ UNCHANGED <<profile, email_keyword, app, namespace, inbox>>
    /\ UNCHANGED <<fetchVars, pushVars, parseVars, runVars, weeklyVars, cursorVars>>

AcctInit ==
    /\ accounts = <<Work>>
    /\ profile = <<"O", "u", "t", "l", "o", "o", "k">>
    /\ email_keyword = <<>>
    /\ app = FALSE
    /\ namespace = FALSE
    /\ inbox = NoInbox
    /\ acctOp = "none"
    /\ acctCom = NoCom
    /\ available = <<>>
    /\ selected = <<>>
    /\ switched = NoInbox
    /\ connect_ok = FALSE

AcctNext ==
    \/ \E prof \in ProfileNames, keyword \in Keywords : NewFetcher(prof, keyword)
    \/ \E c \in AccountComs : ConnectAccount(c)
    \/ DisconnectAccount
    \/ \E accts \in AccountConfigs : ConfigureOutlook(accts)

\* The state after construction of every component.
Init == FetchInit /\ PushInit /\ ParseInit /\ RunInit /\ AcctInit /\ WeeklyInit /\ CursorInit

FetchSpec == Init /\ [][FetchNext]_vars

PushSpec == Init /\ [][PushNext]_vars

ParseSpec == Init /\ [][ParseNext]_vars

RunSpec == Init /\ [][RunNext]_vars

AcctSpec == Init /\ [][AcctNext]_vars

AutoSpec == Init /\ [][AutoNext]_vars

SeenSpec == Init /\ [][SeenNext]_vars

CursorSpec == Init /\ [][CursorNext]_vars

(***************************************************************************)
(* The claims about the fetcher, checked under FetchSpec.                  *)
(***************************************************************************)
\* A record of the mail source: an item that has a receipt time and that
\* converts to a mail record.
IsRecord(item) == item.timed /\ item.conv

\* The instant now - days, in time units.
WindowStart(days) == now - days * DayLen

FetchReturned == fetchOp = "fetch_emails"

\* C1: a fetch_emails(W) call that began with an empty seen-set returns
\* exactly the records received at or after now - W days, each once, newest
\* first, and so none that is older than the cutoff.
C1_TimeWindow ==
    (FetchReturned /\ seenBefore = {}) =>
        /\ Range(email_list) =
              {id \in DOMAIN mailbox :
                  /\ IsRecord(mailbox[id])
                  /\ Instant(mailbox[id]) >= WindowStart(last_days)}
        /\ NoDup(email_list)
        /\ \A i, j \in 1 .. Len(email_list) :
              i < j => Instant(mailbox[email_list[i]]) >= Instant(mailbox[email_list[j]])

\* A first fetch over a window of at least a day returned a record and left
\* out a record older than the cutoff.
C1_Witness ==
    /\ FetchReturned
    /\ seenBefore = {}
    /\ last_days >= 1
    /\ email_list # <<>>
    /\ \E id \in DOMAIN mailbox :
          IsRecord(mailbox[id]) /\ Instant(mailbox[id]) < WindowStart(last_days)

\* C2: no fetch call returns a uid that an earlier call of the same fetcher
\* returned, and none returns a uid twice.
C2_NoRepeat ==
    /\ Range(email_list) \cap returnedBefore = {}
    /\ NoDup(email_list)

\* A later fetch returned a new record while a record returned by an earlier
\* call was still in the inbox and inside the window.
C2_Witness ==
    /\ FetchReturned
    /\ email_list # <<>>
    /\ \E id \in returnedBefore \cap DOMAIN mailbox :
          IsRecord(mailbox[id]) /\ Instant(mailbox[id]) >= WindowStart(last_days)

(***************************************************************************)
(* The claims about the pushers, checked under PushSpec.                   *)
(***************************************************************************)
IsPost(e) == e.ev = "post"

\* ServerChanPusher.push was called, by its caller or as a channel, and has
\* returned.
ScReturned ==
    \/ pushOp = "ServerChanPusher.push" /\ pushPc = "idle"
    \/ /\ pushOp = "MultiChannelPusher.push"
       /\ \E i \in 1 .. Len(channelOutcomes) : channelCalls[i] = "serverchan"

\* A failure at transport level: a network error, an unreadable answer, or an
\* HTTP error other than 400.
TransportFailure(resp) ==
    \/ resp.kind \in {"url_error", "unreadable"}
    \/ resp.kind = "http_error" /\ resp.status # 400

\* C3: when every attempt of a push fails at transport level, push makes
\* exactly 3 attempts with a wait of 10 after the first and after the second
\* and none after the third, and returns a failure whose message states the
\* number of tries.
C3_RetryBound ==
    (/\ ScReturned
     /\ sendkey # ""
     /\ \A i \in 1 .. Len(netlog) :
           IsPost(netlog[i]) => TransportFailure(netlog[i].resp))
    => /\ Len(netlog) = 5
       /\ \A i \in {1, 3, 5} : IsPost(netlog[i])
       /\ \A i \in {2, 4} : netlog[i].ev = "sleep" /\ netlog[i].delay = 10
       /\ ~scResult.success
       /\ Str(3) \in Range(scResult.message)

\* A push whose three attempts met a network error, an HTTP 500 and an
\* unreadable answer.
C3_Witness ==
    /\ pushOp = "ServerChanPusher.push"
    /\ pushPc = "idle"
    /\ Len(netlog) = 5
    /\ netlog[1].resp.kind = "url_error"
    /\ netlog[3].resp = Response("http_error", 500, NoBody)
    /\ netlog[5].resp.kind = "unreadable"

\* An attempt answered by an HTTP error with a status in S ends the push: it
\* is the last event of the call, and the call has returned a failure.
EndsPushOn(S) ==
    \A i \in 1 .. Len(netlog) :
        (/\ IsPost(netlog[i])
         /\ netlog[i].resp.kind = "http_error"
         /\ netlog[i].resp.status \in S)
        => /\ i = Len(netlog)
           /\ pushPc # "request"
           /\ ~scResult.success

\* C4 as stated: an attempt answered by any HTTP status 400-499 is the last
\* one, with no retry delay after it, and push returns failure.
C4_ClientErrorFinal == EndsPushOn(400 .. 499)

\* C4 as amended: an attempt answered by HTTP status 400 is the last one,
\* with no retry delay after it, and push returns failure.
C4_BadRequestFinal == EndsPushOn({400})

\* A push whose second attempt was answered by HTTP 400 and that returned then.
C4_Witness ==
    /\ ScReturned
    /\ Len(netlog) = 3
    /\ netlog[3].resp = Response("http_error", 400, NoBody)
    /\ ~scResult.success

\* C5: an attempt answered by a readable JSON body is the last one, and the
\* body's code alone decides the result: code 0 gives success with the push id
\* of the body (empty if there is none), any other code a failure that carries
\* the error text of the body.
C5_BodyDecides ==
    \A i \in 1 .. Len(netlog) :
        (IsPost(netlog[i]) /\ netlog[i].resp.kind = "json")
        => LET body == netlog[i].resp.body
           IN  /\ i = Len(netlog)
               /\ pushPc # "request"
               /\ IF body.has_code /\ body.code = 0
                  THEN /\ scResult.success
                       /\ scResult.push_id =
                             IF body.has_data /\ body.has_pushid THEN body.pushid ELSE ""
                  ELSE /\ ~scResult.success
                       /\ body.has_message => body.message \in Range(scResult.message)

\* After one failed attempt, the next is answered by a body with another code
\* than 0 and an error text: push returns that failure and tries no more.
C5_Witness ==
    /\ ScReturned
    /\ Len(netlog) = 3
    /\ netlog[3].resp.kind = "json"
    /\ netlog[3].resp.body.has_code
    /\ netlog[3].resp.body.code # 0
    /\ netlog[3].resp.body.has_message
    /\ ~scResult.success

Succeeded(outcome) == outcome.kind = "returned" /\ outcome.result.success

FailureText(outcome) ==
    IF outcome.kind = "raised" THEN <<outcome.error>> ELSE outcome.result.message

\* part is found in msg at place k.
FoundAt(msg, part, k) ==
    /\ k + Len(part) - 1 <= Len(msg)
    /\ \A n \in 1 .. Len(part) : msg[k + n - 1] = part[n]

\* The parts are found in msg from place k on, one after the other.
RECURSIVE ContainsInOrder(_, _, _)
ContainsInOrder(msg, parts, k) ==
    \/ parts = <<>>
    \/ \E m \in k .. Len(msg) :
          /\ FoundAt(msg, parts[1], m)
          /\ ContainsInOrder(msg, Tail(parts), m + Len(parts[1]))

\* C7: when every channel fails, by returning a failure or by raising, push
\* has invoked each channel exactly once and returns one failure whose
\* message contains the failure message of every channel, in channel order.
C7_AllFail ==
    (/\ pushOp = "MultiChannelPusher.push"
     /\ pushPc = "idle"
     /\ pushers # <<>>
     /\ \A i \in 1 .. Len(channelOutcomes) : ~Succeeded(channelOutcomes[i]))
    => /\ channelCalls = pushers
       /\ Len(channelOutcomes) = Len(pushers)
       /\ ~pushResult.success
       /\ ContainsInOrder(pushResult.message,
              [i \in 1 .. Len(channelOutcomes) |-> FailureText(channelOutcomes[i])], 1)

\* Two channels failed, the built-in one by returning a failure and the
\* other by raising.
C7_Witness ==
    /\ pushOp = "MultiChannelPusher.push"
    /\ pushPc = "idle"
    /\ Len(pushers) = 2
    /\ Len(channelOutcomes) = 2
    /\ channelCalls[1] = "serverchan"
    /\ channelOutcomes[1].kind = "returned"
    /\ channelOutcomes[2].kind = "raised"
    /\ ~pushResult.success

\* C8: a ServerChanPusher constructed with an empty sendkey, or with none,
\* returns failure from push at once: it makes no network call and waits for
\* no retry.
C8_MissingCredential ==
    (pushOp = "ServerChanPusher.push" /\ sendkey_arg = "")
    => /\ netlog = <<>>
       /\ pushPc = "idle"
       /\ ~scResult.success

(***************************************************************************)
(* The claims about the summarizer, checked under ParseSpec.               *)
(***************************************************************************)
ParseEnded == parseOp = "parse_emails_batch"

\* C9: parse_emails_batch([]) returns the fixed "no new mail" result and
\* makes no call of the remote model.
C9_EmptyBatch ==
    (ParseEnded /\ parse_input = <<>>) =>
        /\ parse_raised = ""
        /\ parse_result = NoNewMail
        /\ api_calls = 0

\* parse_emails_batch([]) has returned the "no new mail" result.
C9_Witness ==
    /\ ParseEnded
    /\ parse_input = <<>>
    /\ parse_raised = ""
    /\ parse_result = NoNewMail

\* Something went wrong in the call: the prompt could not be built, the
\* remote call raised, or the response has no text to read.
SummarizingFailed ==
    \/ BuildBatchPromptRaises(parse_input)
    \/ api_answer.kind \in {"raises", "malformed", "content_none"}

ErrorTexts ==
    {a.error : a \in {b \in ApiAnswers : b.kind = "raises"}}
        \cup {"malformed response", "TypeError", "AttributeError"}

\* A result that reports a failure: the one of the except branch of
\* parse_emails_batch or the one of the except branch of
\* _parse_batch_response.
IsFailureResult(r, emails) ==
    \E e \in ErrorTexts :
        r = ParseFailed(e, Len(emails)) \/ r = ResponseFailed(e, emails)

\* C10: for a non-empty batch parse_emails_batch never raises, and when
\* building the request, the remote call or reading the response fails, it
\* returns a result that reports the failure.
C10_NeverRaises ==
    (ParseEnded /\ parse_input # <<>>) =>
        /\ parse_raised = ""
        /\ SummarizingFailed => IsFailureResult(parse_result, parse_input)

\* The response is a text and the call returned a result read from it.
ReadResponse ==
    /\ ParseEnded
    /\ api_answer.kind = "text"
    /\ parse_raised = ""
    /\ \A i \in 1 .. Len(parse_input) : ~parse_input[i].subject_none

HasBlock(answer) == \E i \in 1 .. Len(answer.lines) : answer.lines[i].kind = "block"

\* The response without its delimited blocks.
WithoutBlocks(answer) ==
    ApiAnswer(answer.kind, answer.error,
              SelectSeq(answer.lines, LAMBDA line : line.kind # "block"))

\* No line of the response begins with a prefix the parser knows.
NothingRecognised(answer) ==
    \A i \in 1 .. Len(answer.lines) :
        answer.lines[i].kind \notin {"important", "overall", "summaries_header"}

InLog(stage) == \E i \in 1 .. Len(run_log) : run_log[i] = stage

Times(stage) == Cardinality({i \in 1 .. Len(run_log) : run_log[i] = stage})

Before(first, second) ==
    \A j \in 1 .. Len(run_log) :
        run_log[j] = second => \E i \in 1 .. j - 1 : run_log[i] = first

Exited == runPc = "exited"

\* C12: a run whose fetch returned at least one record invokes the pusher's
\* push exactly once, after the summarizer has returned.
C12_PushOnce ==
    (Exited /\ run_fetch.emails # <<>>) =>
        /\ Times("push") = 1
        /\ Before("parse", "push")

\* start() has returned: normally, or right after connect() failed.
StartReturned == runPc = "stopped" \/ (Exited /\ (InLog("return") \/ InLog("connect_failed")))

\* C13: when start() has returned the connection to the mail source is
\* released, whatever happened in the run, and no fetch was made before the
\* connection was acquired.
C13_ConnectionReleased ==
    /\ StartReturned => ~outlook_app
    /\ Before("connect", "fetch")

\* start() has returned after a run in which mail was fetched and summarized
\* and an exception ended the pipeline; the connection is released.
C13_Witness ==
    /\ runPc = "stopped"
    /\ run_fetch.emails # <<>>
    /\ InLog("push_arguments_raised")
    /\ ~outlook_app

\* C14: once a termination signal has been received no new pipeline work is
\* initiated: no fetch, no summarization call and no push follows it.
C14_SignalStopsWork ==
    \A i, j \in 1 .. Len(run_log) :
        (i < j /\ run_log[i] = "signal") => run_log[j] \notin {"fetch", "parse", "push"}

ConnectFailed == InLog("connect_failed")

\* C15: the exit status is 0 when the pipeline has completed (start()
\* returned True), with or without new mail, and is not 0 when the
\* connection failed at startup or an exception reached run().
C15_ExitCode ==
    Exited =>
        /\ InLog("return") => exit_code = 0
        /\ ConnectFailed => exit_code # 0
        /\ InLog("controller_raised") => exit_code # 0

\* The run has exited with status 0 after a fetch that found no new mail.
C15_Witness ==
    /\ Exited
    /\ InLog("fetch")
    /\ run_fetch.emails = <<>>
    /\ exit_code = 0

\* The inbox holds mail the run's fetch would return.
MailWaiting ==
    \E id \in DOMAIN mailbox :
        /\ mailbox[id].timed /\ mailbox[id].conv
        /\ InWindow(mailbox[id], Cutoff(1))

\* C16: when the connection cannot be established at the start of the run,
\* the run ends before any fetch: no item is read, the summarizer is not
\* called and nothing is pushed.
C16_AbortBeforeFetch ==
    ConnectFailed =>
        /\ ~InLog("fetch") /\ ~InLog("parse") /\ ~InLog("push")
        /\ items_read = 0
        /\ run_fetch = NoFetch
        /\ run_summary = NoSummary
        /\ Exited

\* The connection failed while mail was waiting in the inbox.
C16_Witness ==
    /\ ConnectFailed
    /\ Exited
    /\ MailWaiting

\* What _shutdown should write: the identifier the run's fetch returned when
\* it returned records, else the one read at startup.
EntryIdToSave ==
    IF run_fetch.emails # <<>> THEN run_fetch.latest_entry_id ELSE entry_file

\* C20: the last-entry-id file is read at most once, at startup, and written
\* at most once, by _shutdown after the pipeline; the value written is the
\* identifier returned by the run's fetch when it returned records, else the
\* value read at startup; nothing is written when that value is empty or
\* the connection failed.
C20_EntryFile ==
    /\ file_reads <= 1
    /\ file_reads = 1 => (InLog("begin") \/ InLog("controller_raised"))
    /\ Len(file_writes) <= 1
    /\ file_writes # <<>> =>
          /\ InLog("shutdown")
          /\ \A i, j \in 1 .. Len(run_log) :
                (i < j /\ run_log[i] = "shutdown")
                    => run_log[j] \notin {"connect", "fetch", "parse", "push"}
          /\ file_writes[1].entry_id = EntryIdToSave
          /\ EntryIdToSave # NoEntryId
    /\ (InLog("shutdown") /\ EntryIdToSave = NoEntryId) => file_writes = <<>>
    /\ (InLog("shutdown") /\ EntryIdToSave # NoEntryId) => Len(file_writes) = 1
    /\ ConnectFailed => file_writes = <<>>

\* A run that began with an identifier in the file and fetched records has
\* written the identifier its fetch returned.
C20_Witness ==
    /\ Exited
    /\ entry_file = OldEntryId
    /\ Len(run_fetch.emails) > 1
    /\ file_writes = <<[entry_id |-> run_fetch.latest_entry_id, ok |-> TRUE]>>

(***************************************************************************)
(* Further claims about the fetcher, checked under FetchSpec.              *)
(***************************************************************************)
\* C17: the identifier fetch_emails returns is the id of the most recent
\* record among those it returns, and is empty when it returns none.
C17_LatestIsNewest ==
    FetchReturned =>
        IF email_list = <<>>
        THEN latest_entry_id = NoEntryId
        ELSE /\ latest_entry_id \in Range(email_list)
             /\ \A id \in Range(email_list) :
                   Instant(mailbox[latest_entry_id]) >= Instant(mailbox[id])

NoConnection == fetchOp = "fetch_emails:no_connection"

\* C18: a fetch_emails call that cannot connect returns the empty list and
\* the empty identifier after one connection attempt, reads no item and
\* leaves the seen-set as it was.
C18_NoConnection ==
    NoConnection =>
        /\ email_list = <<>>
        /\ latest_entry_id = NoEntryId
        /\ connectCalls = 1
        /\ items_read = 0
        /\ processed_ids = seenBefore

\* A fetch could not connect while an unseen record was inside its window.
C18_Witness ==
    /\ NoConnection
    /\ \E id \in DOMAIN mailbox \ processed_ids :
          IsRecord(mailbox[id]) /\ Instant(mailbox[id]) >= WindowStart(last_days)

\* C19: an item without a timestamp, or whose conversion fails, is left out
\* and does not end the scan: every unseen record inside the window is
\* returned, whatever its place among such items.
C19_SkipAndGoOn ==
    FetchReturned =>
        Range(email_list) =
            {id \in DOMAIN mailbox \ seenBefore :
                /\ IsRecord(mailbox[id])
                /\ Instant(mailbox[id]) >= WindowStart(last_days)}

\* A fetch returned a record that is older than an item of the window whose
\* conversion failed, so that came after it in the scan.
C19_Witness ==
    /\ FetchReturned
    /\ \E bad \in DOMAIN mailbox, id \in Range(email_list) :
          /\ mailbox[bad].timed /\ ~mailbox[bad].conv
          /\ Instant(mailbox[bad]) >= WindowStart(last_days)
          /\ Instant(mailbox[id]) < Instant(mailbox[bad])

(***************************************************************************)
(* Further claims about the summarizer, checked under ParseSpec.           *)
(***************************************************************************)
\* C21: for every non-empty batch parse_emails_batch makes exactly one call
\* of the remote model, whether the call succeeds or fails: a failed call is
\* not made again.
C21_OneCall ==
    (ParseEnded /\ parse_input # <<>>) => api_calls = 1

(***************************************************************************)
(* The claim about account selection, checked under AcctSpec.              *)
(***************************************************************************)
\* The accounts whose address contains the keyword, case-insensitively.
Matching ==
    {i \in 1 .. Len(accounts) : Occurs(Lower(email_keyword), Lower(accounts[i].address))}

\* C22: with an account keyword configured, connect binds the inbox of an
\* account whose address contains the keyword (case-insensitively); when no
\* account's address contains it, the default account's inbox is bound; in
\* both cases connect succeeds when Outlook can be reached.
C22_AccountByKeyword ==
    (acctOp = "connect" /\ acctCom.ok /\ email_keyword # <<>>) =>
        /\ connect_ok
        /\ IF Matching # {} THEN inbox \in Matching ELSE inbox = GetDefaultFolder

(***************************************************************************)
(* A further claim about the pushers, checked under PushSpec.              *)
(***************************************************************************)
\* A push outcome with its three parts: a success flag, a message that says
\* something, and a push id (empty when the service gave none).
WellFormed(r) ==
    /\ DOMAIN r = {"success", "message", "push_id"}
    /\ r.success \in BOOLEAN
    /\ r.message # <<>>
    /\ r.push_id \in {"", "pushid-1", "pushid-2"}

\* C23: ServerChanPusher.push and MultiChannelPusher.push never raise to
\* their caller, and a call that has ended has returned a well-formed push
\* outcome, whatever the webhook answered (a network error, an HTTP error, an
\* unreadable body) and whether or not a channel raised.
C23_PushNeverRaises ==
    /\ push_raised = ""
    /\ (pushOp = "ServerChanPusher.push" /\ pushPc = "idle") => WellFormed(scResult)
    /\ (pushOp = "MultiChannelPusher.push" /\ pushPc = "idle") => WellFormed(pushResult)

\* A MultiChannelPusher.push call ended after its built-in channel met an
\* unreadable body, a network error and an HTTP error, and its second
\* channel raised.
C23_Witness ==
    /\ pushOp = "MultiChannelPusher.push"
    /\ pushPc = "idle"
    /\ Len(netlog) = 5
    /\ netlog[1].resp.kind = "unreadable"
    /\ netlog[3].resp.kind = "url_error"
    /\ netlog[5].resp.kind = "http_error"
    /\ Len(channelOutcomes) = 2
    /\ channelOutcomes[2].kind = "raised"
    /\ WellFormed(scResult)
    /\ WellFormed(pushResult)

(***************************************************************************)
(* The claim about core/auto_email_fetcher.py, checked under AutoSpec.     *)
(***************************************************************************)
\* A fetch made through auto_email_fetcher has returned; last_days holds the
\* max_emails it was called with.
AutoFetchReturned == fetchOp \in {"fetch_emails", "fetch_emails_auto"}

\* C24: fetch_emails_auto, OutlookAutoFetcher.fetch_emails and the
\* module's fetch_emails, called with max_emails = N, return at most N
\* records.
C24_AtMostMaxEmails ==
    AutoFetchReturned => Len(email_list) <= last_days

(***************************************************************************)
(* The claim about the seen-set, checked under SeenSpec.                   *)
(***************************************************************************)
\* The ids of the records fetch_emails and fetch_all_emails have returned
\* so far.
ReturnedSoFar == returnedBefore \cup Range(email_list)

\* A step keeps every id of the seen-set, and a step that is a
\* fetch_weekly_emails, a connect or a disconnect leaves the set as it is.
SeenStep ==
    /\ processed_ids \subseteq processed_ids'
    /\ fetchOp' \in {"fetch_weekly_emails", "fetch_weekly_emails:no_connection",
                     "fetch_weekly_emails:error", "connect", "disconnect"}
          => processed_ids' = processed_ids

\* C25: after any sequence of fetch_emails, fetch_all_emails,
\* fetch_weekly_emails, connect and disconnect calls on one fetcher the
\* seen-set is exactly the set of the ids of the records fetch_emails and
\* fetch_all_emails have returned so far, so that it holds no id of an item
\* that was only skipped; it never shrinks, and fetch_weekly_emails, connect
\* and disconnect leave it unchanged.
C25_SeenSet == [](processed_ids = ReturnedSoFar) /\ [][SeenStep]_vars

\* fetch_weekly_emails has returned a record that fetch_emails had skipped
\* as out of its window when it returned a newer one: the seen-set holds
\* the newer one only.
C25_Witness ==
    /\ fetchOp = "fetch_weekly_emails"
    /\ processed_ids # {}
    /\ processed_ids = returnedBefore
    /\ \E id \in Range(weekly_list), seen \in processed_ids :
          /\ id \notin processed_ids
          /\ Instant(mailbox[seen]) > Instant(mailbox[id])

(***************************************************************************)
(* Further claims about a run of main(), checked under RunSpec.            *)
(***************************************************************************)
\* The run's fetch_emails call has just returned; the fetcher was made for
\* the run, so nothing was seen before it.
RunFetched == InLog("fetch") /\ fetchOp = "fetch_emails"

\* C26: a run started through PureOutlookController.start fetches all the
\* not-yet-seen mail received within the trailing 7 days.
C26_SevenDays ==
    RunFetched =>
        Range(run_fetch.emails) =
            {id \in DOMAIN mailbox :
                IsRecord(mailbox[id]) /\ Instant(mailbox[id]) >= WindowStart(7)}

\* C27: start() returns True exactly when the connection succeeded (so
\* that run() ends with status 0 exactly then): an exception of the fetch,
\* summarize or push stage is caught inside _process_cycle and does not
\* reach start's caller, and _shutdown has run exactly once when start()
\* returns after a connection.
C27_StartResult ==
    /\ ~Escaped
    /\ StartReturned =>
          /\ InLog("connect") => (StartResult /\ Times("shutdown") = 1)
          /\ ConnectFailed => Times("shutdown") = 0
    /\ (Exited /\ InLog("begin")) => (exit_code = 0 <=> InLog("connect"))

\* A run whose push stage raised has ended: start() returned True after
\* one _shutdown, and the status is 0.
C27_Witness ==
    /\ Exited
    /\ InLog("push_arguments_raised")
    /\ Times("shutdown") = 1
    /\ file_writes # <<>>
    /\ ~outlook_app
    /\ exit_code = 0

\* What the fetch of a run that began with the marker c returns, for the
\* same inbox at the same time and the order Sort leaves the items in.
TwinFetch(c, order) ==
    ScanWindow(mailbox, order, 1, Cutoff(RunLastDays(c)),
               ScanState(<<>>, NoEntryId, seenBefore))

NewerThanCursor ==
    {id \in DOMAIN cur_box :
        /\ cur_box[id].timed /\ cur_box[id].conv
        /\ (cur_arg \in DOMAIN cur_box /\ cur_box[cur_arg].timed)
              => Instant(cur_box[id]) > Instant(cur_box[cur_arg])}

\* Every mail of the inbox the call found has a received time, and no two
\* have the same: newest first is one order.
DistinctTimes ==
    /\ \A id \in DOMAIN cur_box : cur_box[id].timed
    /\ \A a, b \in DOMAIN cur_box :
          a # b => Instant(cur_box[a]) # Instant(cur_box[b])

\* C29: over an inbox that is found newest first and only gains newer mail,
\* a fetch_emails call that is given the identifier the call before
\* returned returns no mail that an earlier call returned, and leaves out
\* no mail newer than the cursor when max_emails does not cut the scan
\* short.
C29_CursorIncremental ==
    (cur_op = "fetch_emails" /\ cur_newest_first /\ DistinctTimes) =>
        /\ Range(cur_list) \cap cur_before = {}
        /\ cur_max >= Cardinality(DOMAIN cur_box) => NewerThanCursor \subseteq Range(cur_list)

(***************************************************************************)
(* The claim about the format the prompt asks for, checked under           *)
(* ParseSpec.                                                              *)
(***************************************************************************)
\* The response is the one the prompt asks for: the important-mail line, the
\* overall-summary line, the header the prompt gives, and the lines
\* numbered 1 .. count.
FollowsPromptFormat(lines, count) ==
    /\ Len(lines) = 3 + count
    /\ lines[1].kind = "important"
    /\ lines[2].kind = "overall"
    /\ lines[3] = PromptHeader
    /\ \A i \in 1 .. count : lines[3 + i].kind = "mail" /\ lines[3 + i].num = i

\* C30: when the response follows the format of the prompt, the result
\* holds for every mail i, at index i - 1, the text of line i cut to 80
\* characters, not the summary made from the subject.
C30_PromptFormatKept ==
    (/\ parseOp = "parse_emails_batch"
     /\ api_answer.kind = "text"
     /\ FollowsPromptFormat(api_answer.lines, Len(parse_input))) =>
        /\ parse_raised = ""
        /\ \A i \in 1 .. Len(parse_input) :
              /\ (i - 1) \in DOMAIN parse_result.email_summaries
              /\ parse_result.email_summaries[i - 1]
                    = <<Cut(api_answer.lines[3 + i].text, 80)>>

================================================================================
